---- MODULE Spec2Model ----
(***************************************************************************)
(* Model of aya-network-monitor:                                           *)
(*   - the XDP packet parser try_aya_network_monitor (eBPF side),          *)
(*   - Filter::matches (user space),                                       *)
(*   - the per-CPU consumer tasks of main and the Ctrl-C shutdown.         *)
(* Multi-byte header fields are loaded the way a little-endian target      *)
(* (bpfel / x86-64 / aarch64) loads a packed struct field: the first byte  *)
(* in memory is the least significant one.                                 *)
(***************************************************************************)
EXTENDS Integers, Sequences, FiniteSets, TLC

(***************************************************************************)
(* Program constants                                                       *)
(***************************************************************************)
IPPROTO_TCP == 6
IPPROTO_UDP == 17
IPPROTO_ICMP == 1
ETH_P_IP == 2048
MAX_PAYLOAD_SIZE == 128
SizeOfEthHdr == 14
SizeOfIpv4Hdr == 20
SizeOfTcpHdr == 20
SizeOfUdpHdr == 8
SizeOfIcmpHdr == 4
\* buffers.len(): the number of BytesMut handed to read_events
BatchSize == 10

(***************************************************************************)
(* Bounds of the model                                                     *)
(***************************************************************************)
\* longest frame handed to the parser
MaxLen == 184

\* records the kernel side delivers to the perf buffer of the busy CPU
MaxRecords == 3

\* IHL / TCP data-offset nibbles tried: below 5, exactly 5, options, maximum
NibbleVals == {0, 3, 5, 6, 10, 15}
\* an ether type that is not IPv4 (IPv6), and an IP protocol that is not handled (GRE)
EtherTypes == {ETH_P_IP, 34525}
Protocols == {IPPROTO_TCP, IPPROTO_UDP, IPPROTO_ICMP, 47}

VARIABLES
    \* ---- parser (one XDP invocation) ----
    pkt,          \* the frame: [len, ether_type, ihl, protocol, doff]
    ppc,          \* position of the parser in try_aya_network_monitor
    ip_hdr_len,   \* u8
    l4_off,       \* tcp_hdr_ptr / udp_hdr_ptr / icmp_hdr_ptr, as an offset from data
    payload_ptr,  \* as an offset from data
    to_copy,
    i,
    payload,      \* [u8; MAX_PAYLOAD_SIZE]; payload[k] of the code is payload[k + 1] here
    payload_len,  \* u16
    reads,        \* every range [lo, hi) of frame offsets the parser has loaded from
    writes,       \* every index of payload[] the copy loop has stored to
    events,       \* what went to EVENTS.output
    \* ---- Filter::matches ----
    filter,       \* the Filter built at startup; an Option is <<>> (None) or <<v>> (Some(v))
    mevent,       \* the event handed to one call of Filter::matches
    mresult,      \* <<>> before the call, <<b>> once it has returned b
    \* ---- main: one consumer task per CPU, and the shutdown ----
    display_mode, \* DisplayMode
    traffic,      \* which of the traffic patterns the interface sees
    ring,         \* per CPU: the records in the perf buffer, oldest first
    quota,        \* per CPU: how many more records the kernel side will deliver
    produced,     \* per CPU: how many records were delivered so far
    ready,        \* per CPU: the readiness the AsyncFd has cached
    fresh,        \* per CPU: a readiness event arrived after the current guard was made
    cpc,          \* per CPU: position of the consumer task
    buffers,      \* per CPU: the first events.read entries of buffers
    idx,          \* per CPU: how many of them the for loop has gone through
    total,
    filtered,
    counters,
    output,       \* per CPU: the lines of the String format_event_with_mode returned
    stdout,       \* the lines written to standard output, in order
    abort_req,    \* per CPU: handle.abort() was called
    mainpc,       \* position of main
    next_handle,  \* main's position in `for handle in handles`
    exit_code,    \* <<>> while the process runs, <<status>> once main has returned
    \* ---- the command line, and format_event_with_mode for one event ----
    opt,          \* Opt: what the command line said
    revent,       \* the NetworkEvent handed to format_event_with_mode
    rpc,          \* position in format_event_with_mode / format_protocol_parse / parse_dns
    question_count,
    pos,          \* parse_dns: the read position in payload
    question,     \* parse_dns: the i of `for i in 0..question_count`
    domain,       \* parse_dns: the domain of the question at hand
    dns_output,   \* parse_dns: its output String
    indexed,      \* every range [lo, hi) of payload the renderer has indexed or sliced
    overrun,      \* parse_dns met a label length that extends past the end of payload
    dissector,    \* which dissector produced the Protocol output: "http", "dns" or "none"
    rendered      \* <<>> while rendering, <<s>> once format_event_with_mode has returned s

parserVars == <<pkt, ppc, ip_hdr_len, l4_off, payload_ptr, to_copy, i, payload,
                payload_len, reads, writes, events>>

filterVars == <<filter, mevent, mresult>>

consumerVars == <<display_mode, traffic, ring, quota, produced, ready, fresh, cpc, buffers, idx,
                  total, filtered, counters, output, stdout, abort_req, mainpc,
                  next_handle, exit_code>>

renderVars == <<opt, revent, rpc, question_count, pos, question, domain, dns_output,
                indexed, overrun, dissector, rendered>>

vars == <<parserVars, filterVars, consumerVars, renderVars>>

(***************************************************************************)
(* Integer helpers                                                         *)
(***************************************************************************)
Min(a, b) == IF a < b THEN a ELSE b

\* u16::from_be / u16::to_be on a little-endian host: swap the two bytes
SwapBytes16(x) == (x % 256) * 256 + (x \div 256)

\* A u32 is kept as its four base-256 digits, most significant first (the
\* value itself is beyond the integers TLC computes with).
\* u32::from_be / u32::to_be on a little-endian host: reverse the four bytes
SwapBytes32(x) == <<x[4], x[3], x[2], x[1]>>

(***************************************************************************)
(* The frame between ctx.data() and ctx.data_end()                         *)
(***************************************************************************)
\* offset of the byte holding the TCP data-offset nibble in frame p
DoffAt(p) == SizeOfEthHdr + p.ihl * 4 + 12

\* the byte at offset o of frame p (meaningful for 0 <= o < p.len)
Data(p, o) ==
    CASE o = 12 -> p.ether_type \div 256
      [] o = 13 -> p.ether_type % 256
      [] o = 14 -> 64 + p.ihl
      [] o = 23 -> p.protocol
      [] o = DoffAt(p) /\ p.protocol = IPPROTO_TCP -> p.doff * 16 + 1
      [] OTHER -> (o * 37 + 7) % 256

\* native load of a packed u16 / u32 field at offset o
LoadU16(p, o) == Data(p, o) + 256 * Data(p, o + 1)
LoadU32(p, o) == <<Data(p, o + 3), Data(p, o + 2), Data(p, o + 1), Data(p, o)>>

Frames ==
    { [len |-> n, ether_type |-> e, ihl |-> h, protocol |-> pr, doff |-> d] :
        n \in 0..MaxLen, e \in EtherTypes, h \in NibbleVals, pr \in Protocols,
        d \in NibbleVals }

\* one representative per frame content: fields the bytes do not depend on are fixed
CanonicalFrame(p) ==
    /\ p.ether_type # ETH_P_IP => (p.ihl = 5 /\ p.protocol = IPPROTO_TCP)
    /\ p.protocol # IPPROTO_TCP => p.doff = 5
    /\ p.ether_type # ETH_P_IP => p.doff = 5

(***************************************************************************)
(* try_aya_network_monitor                                                 *)
(***************************************************************************)
\* (ip_hdr.version_ihl & 0x0F) * 4, in u8
IpHdrLen(version_ihl) == ((version_ihl % 16) * 4) % 256

\* the data offset taken from the low nibble (the reserved bits) instead
TcpHdrLenLowNibble(data_off) == ((data_off % 16) * 4) % 256

\* ((tcp_hdr.data_off >> 4) as u8) * 4, in u8
TcpHdrLen(data_off) == ((data_off \div 16) * 4) % 256

\* a bounds check that lets a header end one byte past data_end
HdrFitsOffByOne(off, size, len) == ~(off + size > len + 1)

\* (ptr as usize + size_of::<T>()) > data_end as usize  is false
HdrFits(off, size, len) == ~(off + size > len)

\* a copy length that is not capped by the capacity of payload[]
ToCopyNoCap(available) == available

\* core::cmp::min(available, MAX_PAYLOAD_SIZE)
ToCopy(available) == Min(available, MAX_PAYLOAD_SIZE)

ZeroPayload == [k \in 1..MAX_PAYLOAD_SIZE |-> 0]

\* a load of the bytes [off, off + size)
Load(rs, off, size) == rs \cup {<<off, off + size>>}

\* the load of payload byte number k: the bytes copied so far are kept as one range
LoadPayloadByte(rs, start, k) ==
    (rs \ {<<start, start + k>>}) \cup {<<start, start + k + 1>>}

\* lines 36-48: the Ethernet header and the ether type
ParseEth ==
    /\ UNCHANGED <<filterVars, consumerVars, renderVars>>
    /\ ppc = "eth"
    /\ IF ~HdrFits(0, SizeOfEthHdr, pkt.len)
         THEN /\ ppc' = "pass"
              /\ reads' = reads
         ELSE /\ reads' = Load(reads, 12, 2)
              /\ ppc' = IF SwapBytes16(LoadU16(pkt, 12)) # ETH_P_IP THEN "pass" ELSE "ip"
    /\ UNCHANGED <<pkt, ip_hdr_len, l4_off, payload_ptr, to_copy, i, payload,
                   payload_len, writes, events>>

\* lines 51-63: the IPv4 header
ParseIp ==
    /\ UNCHANGED <<filterVars, consumerVars, renderVars>>
    /\ ppc = "ip"
    /\ IF ~HdrFits(SizeOfEthHdr, SizeOfIpv4Hdr, pkt.len)
         THEN /\ ppc' = "pass"
              /\ UNCHANGED <<reads, ip_hdr_len>>
         ELSE /\ reads' = Load(Load(Load(Load(reads, SizeOfEthHdr + 9, 1),
                                SizeOfEthHdr + 12, 4), SizeOfEthHdr + 16, 4),
                                SizeOfEthHdr, 1)
              /\ ip_hdr_len' = IpHdrLen(Data(pkt, SizeOfEthHdr))
              /\ ppc' = "l4"
    /\ UNCHANGED <<pkt, l4_off, payload_ptr, to_copy, i, payload, payload_len,
                   writes, events>>

\* lines 85-88 (141-144, 197-200): is there a payload, and how much of it to copy
StartCopy(start) ==
    /\ payload_ptr' = start
    /\ payload' = ZeroPayload
    /\ payload_len' = 0
    /\ i' = 0
    /\ IF start < pkt.len
         THEN /\ to_copy' = ToCopy(pkt.len - start)
              /\ ppc' = "copy"
         ELSE /\ to_copy' = 0
              /\ ppc' = "emit"

\* lines 67-88: the TCP header and the start of its payload
ParseTcp ==
    /\ UNCHANGED <<filterVars, consumerVars, renderVars>>
    /\ ppc = "l4"
    /\ Data(pkt, SizeOfEthHdr + 9) = IPPROTO_TCP
    /\ l4_off' = SizeOfEthHdr + ip_hdr_len
    /\ IF ~HdrFits(l4_off', SizeOfTcpHdr, pkt.len)
         THEN /\ ppc' = "pass"
              /\ UNCHANGED <<reads, payload_ptr, to_copy, i, payload, payload_len>>
         ELSE /\ reads' = Load(reads, l4_off' + 12, 1)
              /\ StartCopy(l4_off' + TcpHdrLen(Data(pkt, l4_off' + 12)))
    /\ UNCHANGED <<pkt, ip_hdr_len, writes, events>>

\* lines 124-144: the UDP header and the start of its payload
ParseUdp ==
    /\ UNCHANGED <<filterVars, consumerVars, renderVars>>
    /\ ppc = "l4"
    /\ Data(pkt, SizeOfEthHdr + 9) = IPPROTO_UDP
    /\ l4_off' = SizeOfEthHdr + ip_hdr_len
    /\ IF ~HdrFits(l4_off', SizeOfUdpHdr, pkt.len)
         THEN /\ ppc' = "pass"
              /\ UNCHANGED <<payload_ptr, to_copy, i, payload, payload_len>>
         ELSE StartCopy(l4_off' + SizeOfUdpHdr)
    /\ UNCHANGED <<pkt, ip_hdr_len, reads, writes, events>>

\* lines 180-200: the ICMP header and the start of its payload
ParseIcmp ==
    /\ UNCHANGED <<filterVars, consumerVars, renderVars>>
    /\ ppc = "l4"
    /\ Data(pkt, SizeOfEthHdr + 9) = IPPROTO_ICMP
    /\ l4_off' = SizeOfEthHdr + ip_hdr_len
    /\ IF ~HdrFits(l4_off', SizeOfIcmpHdr, pkt.len)
         THEN /\ ppc' = "pass"
              /\ UNCHANGED <<payload_ptr, to_copy, i, payload, payload_len>>
         ELSE StartCopy(l4_off' + SizeOfIcmpHdr)
    /\ UNCHANGED <<pkt, ip_hdr_len, reads, writes, events>>

\* line 236: any other protocol
ParseOther ==
    /\ UNCHANGED <<filterVars, consumerVars, renderVars>>
    /\ ppc = "l4"
    /\ Data(pkt, SizeOfEthHdr + 9) \notin {IPPROTO_TCP, IPPROTO_UDP, IPPROTO_ICMP}
    /\ ppc' = "pass"
    /\ UNCHANGED <<pkt, ip_hdr_len, l4_off, payload_ptr, to_copy, i, payload,
                   payload_len, reads, writes, events>>

\* lines 91-104 (147-160, 203-216): one iteration of the copy loop
CopyByte ==
    /\ UNCHANGED <<filterVars, consumerVars, renderVars>>
    /\ ppc = "copy"
    /\ IF i >= to_copy \/ payload_ptr + i >= pkt.len
         THEN /\ payload_len' = i % 65536
              /\ ppc' = "emit"
              /\ UNCHANGED <<i, payload, reads, writes>>
         ELSE /\ reads' = LoadPayloadByte(reads, payload_ptr, i)
              /\ payload' = [payload EXCEPT ![i + 1] = Data(pkt, payload_ptr + i)]
              /\ writes' = writes \cup {i}
              /\ i' = i + 1
              /\ UNCHANGED <<payload_len, ppc>>
    /\ UNCHANGED <<pkt, ip_hdr_len, l4_off, payload_ptr, to_copy, events>>

NetworkEvent(protocol, src_ip, dst_ip, src_port, dst_port, size, tcp_flags) ==
    [protocol |-> protocol, src_ip |-> src_ip, dst_ip |-> dst_ip,
     src_port |-> src_port, dst_port |-> dst_port, packet_size |-> size,
     tcp_flags |-> tcp_flags, payload_len |-> payload_len, payload |-> payload]

\* lines 108-122: the TCP event
EmitTcp ==
    /\ UNCHANGED <<filterVars, consumerVars, renderVars>>
    /\ ppc = "emit"
    /\ Data(pkt, SizeOfEthHdr + 9) = IPPROTO_TCP
    /\ reads' = Load(Load(Load(reads, l4_off, 2), l4_off + 2, 2), l4_off + 13, 1)
    /\ events' = Append(events,
            NetworkEvent(IPPROTO_TCP, LoadU32(pkt, SizeOfEthHdr + 12),
                LoadU32(pkt, SizeOfEthHdr + 16), LoadU16(pkt, l4_off),
                LoadU16(pkt, l4_off + 2), pkt.len, Data(pkt, l4_off + 13)))
    /\ ppc' = "pass"
    /\ UNCHANGED <<pkt, ip_hdr_len, l4_off, payload_ptr, to_copy, i, payload,
                   payload_len, writes>>

\* lines 164-178: the UDP event
EmitUdp ==
    /\ UNCHANGED <<filterVars, consumerVars, renderVars>>
    /\ ppc = "emit"
    /\ Data(pkt, SizeOfEthHdr + 9) = IPPROTO_UDP
    /\ reads' = Load(Load(reads, l4_off, 2), l4_off + 2, 2)
    /\ events' = Append(events,
            NetworkEvent(IPPROTO_UDP, LoadU32(pkt, SizeOfEthHdr + 12),
                LoadU32(pkt, SizeOfEthHdr + 16), LoadU16(pkt, l4_off),
                LoadU16(pkt, l4_off + 2), pkt.len, 0))
    /\ ppc' = "pass"
    /\ UNCHANGED <<pkt, ip_hdr_len, l4_off, payload_ptr, to_copy, i, payload,
                   payload_len, writes>>

\* lines 220-234: the ICMP event
EmitIcmp ==
    /\ UNCHANGED <<filterVars, consumerVars, renderVars>>
    /\ ppc = "emit"
    /\ Data(pkt, SizeOfEthHdr + 9) = IPPROTO_ICMP
    /\ events' = Append(events,
            NetworkEvent(IPPROTO_ICMP, LoadU32(pkt, SizeOfEthHdr + 12),
                LoadU32(pkt, SizeOfEthHdr + 16), 0, 0, pkt.len, 0))
    /\ ppc' = "pass"
    /\ UNCHANGED <<pkt, ip_hdr_len, l4_off, payload_ptr, to_copy, i, payload,
                   payload_len, reads, writes>>

(***************************************************************************)
(* Filter::matches                                                         *)
(***************************************************************************)
None == <<>>
Some(v) == <<v>>

\* matches without the dst_port criterion
FilterMatchesNoDstPort(f, e) ==
    IF f.protocol # None /\ e.protocol # f.protocol[1] THEN FALSE
    ELSE IF f.src_ip # None /\ e.src_ip # f.src_ip[1] THEN FALSE
    ELSE IF f.dst_ip # None /\ e.dst_ip # f.dst_ip[1] THEN FALSE
    ELSE IF f.src_port # None /\ e.src_port # f.src_port[1] THEN FALSE
    ELSE TRUE

\* Filter::matches: the first present criterion that differs returns false
FilterMatches(f, e) ==
    IF f.protocol # None /\ e.protocol # f.protocol[1] THEN FALSE
    ELSE IF f.src_ip # None /\ e.src_ip # f.src_ip[1] THEN FALSE
    ELSE IF f.dst_ip # None /\ e.dst_ip # f.dst_ip[1] THEN FALSE
    ELSE IF f.src_port # None /\ e.src_port # f.src_port[1] THEN FALSE
    ELSE IF f.dst_port # None /\ e.dst_port # f.dst_port[1] THEN FALSE
    ELSE TRUE

Filter(protocol, src_ip, dst_ip, src_port, dst_port) ==
    [protocol |-> protocol, src_ip |-> src_ip, dst_ip |-> dst_ip,
     src_port |-> src_port, dst_port |-> dst_port]

NoFilter == Filter(None, None, None, None, None)

\* a NetworkEvent as user space decodes it; of payload[] only the first
\* payload_len bytes are kept
UserEvent(protocol, src_ip, dst_ip, src_port, dst_port, len) ==
    [protocol |-> protocol, src_ip |-> src_ip, dst_ip |-> dst_ip,
     src_port |-> src_port, dst_port |-> dst_port, packet_size |-> 42 + len,
     tcp_flags |-> IF protocol = IPPROTO_TCP THEN 24 ELSE 0,
     payload_len |-> len, payload |-> [k \in 1..len |-> 65]]

\* addresses and ports as the event carries them: wire order, loaded natively
IpA == SwapBytes32(<<192, 168, 1, 5>>)
IpB == SwapBytes32(<<10, 0, 0, 9>>)
PortDns == SwapBytes16(53)
PortHttp == SwapBytes16(80)

Filters ==
    { Filter(pr, si, di, sp, dp) :
        pr \in {None, Some(IPPROTO_TCP), Some(IPPROTO_UDP)},
        si \in {None, Some(IpA), Some(IpB)}, di \in {None, Some(IpA), Some(IpB)},
        sp \in {None, Some(PortDns), Some(PortHttp)},
        dp \in {None, Some(PortDns), Some(PortHttp)} }

MatchEvents ==
    { UserEvent(pr, si, di, sp, dp, 0) :
        pr \in {IPPROTO_TCP, IPPROTO_UDP}, si \in {IpA, IpB}, di \in {IpA, IpB},
        sp \in {PortDns, PortHttp}, dp \in {PortDns, PortHttp} }

FilterStart ==
    /\ filter \in Filters
    /\ mevent \in MatchEvents
    /\ mresult = None

CallMatches ==
    /\ mresult = None
    /\ mresult' = Some(FilterMatches(filter, mevent))
    /\ UNCHANGED <<filter, mevent, parserVars, consumerVars, renderVars>>

(***************************************************************************)
(* main: the consumer tasks                                                *)
(***************************************************************************)
\* online_cpus(), and the handles in the order they were pushed
Cpus == {0, 1}
Handles == <<0, 1>>

\* The n-th record delivered to CPU c under traffic pattern t.  A record that
\* read_events returned shorter than size_of::<NetworkEvent>() has full = FALSE.
RecordOf(t, c, n) ==
    CASE (n + c + t) % 3 = 1 ->
            [id |-> n, full |-> TRUE,
             ev |-> UserEvent(IPPROTO_UDP, IpA, IpB, PortHttp, PortDns, 20)]
      [] (n + c + t) % 3 = 2 ->
            [id |-> n, full |-> TRUE,
             ev |-> UserEvent(IPPROTO_TCP, IpB, IpA, PortDns, PortHttp, 0)]
      [] OTHER ->
            [id |-> n, full |-> FALSE,
             ev |-> UserEvent(IPPROTO_ICMP, IpA, IpA, 0, 0, 0)]

\* how many records each CPU will see: one CPU takes most of the traffic
Quotas == { [c \in Cpus |-> IF c = busy THEN MaxRecords ELSE 1] : busy \in Cpus }

\* records in a burst on the busy CPU: more than one batch
MaxBurst == 11

\* a burst on one CPU, one record on the other
BurstQuotas == { [c \in Cpus |-> IF c = busy THEN MaxBurst ELSE 1] : busy \in Cpus }

\* what the command line selected
Configs ==
    { [filter |-> NoFilter, mode |-> "Hex"],
      [filter |-> Filter(Some(IPPROTO_UDP), None, None, None, Some(PortDns)),
       mode |-> "Basic"] }

\* Number of lines println!("{}", format_event_with_mode(..)) writes, for the
\* Basic mode (format_event: one line) and the unpaged Hex mode with the
\* default payload_bytes = 128 (the format_event line, the "Payload" line, one
\* line per 16 bytes, and the empty line after the dump's last "\n").
OutputLineCount(e, mode) ==
    IF mode = "Hex"
      THEN 2 + ((Min(128, e.payload_len) + 15) \div 16) + 1
      ELSE 1

\* the text of one record: line k of record id of the task of CPU c
OutputLines(c, rec, mode) ==
    [k \in 1..OutputLineCount(rec.ev, mode) |-> <<c, rec.id, k>>]

\* println!("\n退出...") of main: an empty line and the message
ExitLines == << <<-1, 0, 1>>, <<-1, 0, 2>> >>

\* a loop that walks the batch from its end
CurrentRecordReversed(c) == buffers[c][Len(buffers[c]) - idx[c]]

\* the record the for loop is at
CurrentRecord(c) == buffers[c][idx[c] + 1]

\* guard.clear_ready(): the cached readiness is dropped unless a newer
\* readiness event has arrived since the guard was made
ClearReady(c) == [ready EXCEPT ![c] = ready[c] /\ fresh[c]]

ConsumerStart ==
    /\ \E cfg \in Configs : filter = cfg.filter /\ display_mode = cfg.mode
    /\ traffic \in 0..2
    /\ ring = [c \in Cpus |-> <<>>]
    /\ quota \in Quotas
    /\ produced = [c \in Cpus |-> 0]
    /\ ready = [c \in Cpus |-> FALSE]
    /\ fresh = [c \in Cpus |-> FALSE]
    /\ cpc = [c \in Cpus |-> "await"]
    /\ buffers = [c \in Cpus |-> <<>>]
    /\ idx = [c \in Cpus |-> 0]
    /\ total = [c \in Cpus |-> 0]
    /\ filtered = [c \in Cpus |-> 0]
    /\ counters = [c \in Cpus |-> [pr \in {IPPROTO_TCP, IPPROTO_UDP, IPPROTO_ICMP} |-> 0]]
    /\ output = [c \in Cpus |-> <<>>]
    /\ stdout = <<>>
    /\ abort_req = [c \in Cpus |-> FALSE]
    /\ mainpc = "ctrl_c"
    /\ next_handle = 1
    /\ exit_code = None

\* the tasks are spawned, and a burst of traffic is about to arrive
DrainStart ==
    /\ filter = Filter(Some(IPPROTO_UDP), None, None, None, Some(PortDns))
    /\ display_mode = "Basic"
    /\ traffic = 0
    /\ ring = [c \in Cpus |-> <<>>]
    /\ quota \in BurstQuotas
    /\ produced = [c \in Cpus |-> 0]
    /\ ready = [c \in Cpus |-> FALSE]
    /\ fresh = [c \in Cpus |-> FALSE]
    /\ cpc = [c \in Cpus |-> "await"]
    /\ buffers = [c \in Cpus |-> <<>>]
    /\ idx = [c \in Cpus |-> 0]
    /\ total = [c \in Cpus |-> 0]
    /\ filtered = [c \in Cpus |-> 0]
    /\ counters = [c \in Cpus |-> [pr \in {IPPROTO_TCP, IPPROTO_UDP, IPPROTO_ICMP} |-> 0]]
    /\ output = [c \in Cpus |-> <<>>]
    /\ stdout = <<>>
    /\ abort_req = [c \in Cpus |-> FALSE]
    /\ mainpc = "ctrl_c"
    /\ next_handle = 1
    /\ exit_code = None

\* the XDP program outputs a record on CPU c: the perf buffer becomes readable
Produce(c) ==
    /\ quota[c] > 0
    /\ exit_code = None
    /\ quota' = [quota EXCEPT ![c] = @ - 1]
    /\ produced' = [produced EXCEPT ![c] = @ + 1]
    /\ ring' = [ring EXCEPT ![c] = Append(@, RecordOf(traffic, c, produced[c] + 1))]
    /\ ready' = [ready EXCEPT ![c] = TRUE]
    /\ fresh' = [fresh EXCEPT ![c] = TRUE]
    /\ UNCHANGED <<display_mode, traffic, cpc, buffers, idx, total, filtered, counters, output,
                   stdout, abort_req, mainpc, next_handle, exit_code>>
    /\ UNCHANGED <<parserVars, filterVars, renderVars>>

\* line 710-711: buf.readable_mut().await returns Ok(guard)
AwaitReadable(c) ==
    /\ cpc[c] = "await"
    /\ ready[c]
    /\ exit_code = None
    /\ cpc' = [cpc EXCEPT ![c] = "read"]
    /\ fresh' = [fresh EXCEPT ![c] = FALSE]
    /\ UNCHANGED <<display_mode, traffic, ring, quota, produced, ready, buffers, idx, total,
                   filtered, counters, output, stdout, abort_req, mainpc, next_handle,
                   exit_code>>
    /\ UNCHANGED <<parserVars, filterVars, renderVars>>

\* lines 769-772: buf.readable_mut().await returns Err: warn and break
AwaitFailed(c) ==
    /\ cpc[c] = "await"
    /\ exit_code = None
    /\ cpc' = [cpc EXCEPT ![c] = "finished"]
    /\ UNCHANGED <<display_mode, traffic, ring, quota, produced, ready, fresh, buffers, idx,
                   total, filtered, counters, output, stdout, abort_req, mainpc,
                   next_handle, exit_code>>
    /\ UNCHANGED <<parserVars, filterVars, renderVars>>

\* lines 712-716: read_events returns Ok(events): up to buffers.len() records
ReadEvents(c) ==
    /\ cpc[c] = "read"
    /\ LET n == Min(Len(ring[c]), BatchSize)
       IN  /\ buffers' = [buffers EXCEPT ![c] = SubSeq(ring[c], 1, n)]
           /\ ring' = [ring EXCEPT ![c] = SubSeq(@, n + 1, Len(@))]
    /\ idx' = [idx EXCEPT ![c] = 0]
    /\ cpc' = [cpc EXCEPT ![c] = "batch"]
    /\ UNCHANGED <<display_mode, traffic, quota, produced, ready, fresh, total, filtered,
                   counters, output, stdout, abort_req, mainpc, next_handle, exit_code>>
    /\ UNCHANGED <<parserVars, filterVars, renderVars>>

\* a task that leaves its loop when read_events fails
ReadEventsFailedBreak(c) ==
    /\ cpc[c] = "read"
    /\ cpc' = [cpc EXCEPT ![c] = "finished"]
    /\ UNCHANGED <<display_mode, traffic, ring, quota, produced, ready, fresh, buffers, idx,
                   total, filtered, counters, output, stdout, abort_req, mainpc,
                   next_handle, exit_code>>
    /\ UNCHANGED <<parserVars, filterVars, renderVars>>

\* lines 763-766: read_events returns Err: warn, clear_ready, wait again
ReadEventsFailed(c) ==
    /\ cpc[c] = "read"
    /\ ready' = ClearReady(c)
    /\ cpc' = [cpc EXCEPT ![c] = "await"]
    /\ UNCHANGED <<display_mode, traffic, ring, quota, produced, fresh, buffers, idx, total,
                   filtered, counters, output, stdout, abort_req, mainpc, next_handle,
                   exit_code>>
    /\ UNCHANGED <<parserVars, filterVars, renderVars>>

\* a task that counts a record before it has tested the record's size
ProcessRecordCountsShort(c) ==
    /\ cpc[c] = "batch"
    /\ idx[c] < Len(buffers[c])
    /\ total' = [total EXCEPT ![c] = @ + 1]
    /\ LET rec == CurrentRecord(c)
       IN  IF rec.full /\ FilterMatches(filter, rec.ev)
             THEN /\ filtered' = [filtered EXCEPT ![c] = @ + 1]
                  /\ output' = [output EXCEPT ![c] = OutputLines(c, rec, display_mode)]
                  /\ cpc' = [cpc EXCEPT ![c] = "println"]
                  /\ idx' = idx
             ELSE /\ idx' = [idx EXCEPT ![c] = @ + 1]
                  /\ UNCHANGED <<filtered, output, cpc>>
    /\ UNCHANGED <<display_mode, traffic, ring, quota, produced, ready, fresh, buffers, counters,
                   stdout, abort_req, mainpc, next_handle, exit_code>>
    /\ UNCHANGED <<parserVars, filterVars, renderVars>>

\* lines 716-750: one record of the batch, up to the formatted output
ProcessRecord(c) ==
    /\ cpc[c] = "batch"
    /\ idx[c] < Len(buffers[c])
    /\ LET rec == CurrentRecord(c)
       IN  IF ~rec.full
             THEN /\ idx' = [idx EXCEPT ![c] = @ + 1]
                  /\ UNCHANGED <<total, filtered, output, cpc>>
             ELSE /\ total' = [total EXCEPT ![c] = @ + 1]
                  /\ IF FilterMatches(filter, rec.ev)
                       THEN /\ filtered' = [filtered EXCEPT ![c] = @ + 1]
                            /\ output' = [output EXCEPT ![c] =
                                              OutputLines(c, rec, display_mode)]
                            /\ cpc' = [cpc EXCEPT ![c] = "println"]
                            /\ idx' = idx
                       ELSE /\ idx' = [idx EXCEPT ![c] = @ + 1]
                            /\ UNCHANGED <<filtered, output, cpc>>
    /\ UNCHANGED <<display_mode, traffic, ring, quota, produced, ready, fresh, buffers, counters,
                   stdout, abort_req, mainpc, next_handle, exit_code>>
    /\ UNCHANGED <<parserVars, filterVars, renderVars>>

\* a task that writes its record with one println! per line
PrintlnPerLine(c) ==
    /\ cpc[c] = "println"
    /\ stdout' = Append(stdout, Head(output[c]))
    /\ output' = [output EXCEPT ![c] = Tail(@)]
    /\ IF Len(output[c]) = 1
         THEN /\ counters' = [counters EXCEPT ![c][CurrentRecord(c).ev.protocol] = @ + 1]
              /\ idx' = [idx EXCEPT ![c] = @ + 1]
              /\ cpc' = [cpc EXCEPT ![c] = "batch"]
         ELSE UNCHANGED <<counters, idx, cpc>>
    /\ UNCHANGED <<display_mode, traffic, ring, quota, produced, ready, fresh, buffers, total,
                   filtered, abort_req, mainpc, next_handle, exit_code>>
    /\ UNCHANGED <<parserVars, filterVars, renderVars>>

\* lines 751-754: println!("{}", output) writes the whole text while it holds
\* the lock of std's Stdout; then the per-protocol counter
Println(c) ==
    /\ cpc[c] = "println"
    /\ stdout' = stdout \o output[c]
    /\ output' = [output EXCEPT ![c] = <<>>]
    /\ counters' = [counters EXCEPT ![c][CurrentRecord(c).ev.protocol] = @ + 1]
    /\ idx' = [idx EXCEPT ![c] = @ + 1]
    /\ cpc' = [cpc EXCEPT ![c] = "batch"]
    /\ UNCHANGED <<display_mode, traffic, ring, quota, produced, ready, fresh, buffers, total,
                   filtered, abort_req, mainpc, next_handle, exit_code>>
    /\ UNCHANGED <<parserVars, filterVars, renderVars>>

\* a task that clears the ready state after every batch
EndBatchAlwaysClears(c) ==
    /\ cpc[c] = "batch"
    /\ idx[c] = Len(buffers[c])
    /\ ready' = ClearReady(c)
    /\ cpc' = [cpc EXCEPT ![c] = "await"]
    /\ UNCHANGED <<display_mode, traffic, ring, quota, produced, fresh, buffers, idx, total,
                   filtered, counters, output, stdout, abort_req, mainpc, next_handle,
                   exit_code>>
    /\ UNCHANGED <<parserVars, filterVars, renderVars>>

\* lines 759-761: after the for loop
EndBatch(c) ==
    /\ cpc[c] = "batch"
    /\ idx[c] = Len(buffers[c])
    /\ ready' = IF Len(buffers[c]) # BatchSize THEN ClearReady(c) ELSE ready
    /\ cpc' = [cpc EXCEPT ![c] = "await"]
    /\ UNCHANGED <<display_mode, traffic, ring, quota, produced, fresh, buffers, idx, total,
                   filtered, counters, output, stdout, abort_req, mainpc, next_handle,
                   exit_code>>
    /\ UNCHANGED <<parserVars, filterVars, renderVars>>

\* an aborted task is dropped where it is suspended: at readable_mut().await
Cancelled(c) ==
    /\ cpc[c] = "await"
    /\ abort_req[c]
    /\ cpc' = [cpc EXCEPT ![c] = "aborted"]
    /\ UNCHANGED <<display_mode, traffic, ring, quota, produced, ready, fresh, buffers, idx,
                   total, filtered, counters, output, stdout, abort_req, mainpc,
                   next_handle, exit_code>>
    /\ UNCHANGED <<parserVars, filterVars, renderVars>>

(***************************************************************************)
(* main: the shutdown                                                      *)
(***************************************************************************)
\* lines 783-784: ctrl_c.await returns
CtrlC ==
    /\ mainpc = "ctrl_c"
    /\ mainpc' = "abort"
    /\ UNCHANGED <<display_mode, traffic, ring, quota, produced, ready, fresh, cpc, buffers, idx,
                   total, filtered, counters, output, stdout, abort_req, next_handle,
                   exit_code>>
    /\ UNCHANGED <<parserVars, filterVars, renderVars>>

\* an abort loop that stops before the last handle
AbortLoopDoneEarly == next_handle >= Len(Handles)

\* `for handle in handles` has gone through every handle
AbortLoopDone == next_handle > Len(Handles)

\* lines 787-789: handle.abort() for the next handle
AbortHandle ==
    /\ mainpc = "abort"
    /\ ~AbortLoopDone
    /\ abort_req' = [abort_req EXCEPT ![Handles[next_handle]] = TRUE]
    /\ next_handle' = next_handle + 1
    /\ UNCHANGED <<display_mode, traffic, ring, quota, produced, ready, fresh, cpc, buffers, idx,
                   total, filtered, counters, output, stdout, mainpc, exit_code>>
    /\ UNCHANGED <<parserVars, filterVars, renderVars>>

\* lines 791-793: the goodbye line, and main returns Ok(())
MainReturn ==
    /\ mainpc = "abort"
    /\ AbortLoopDone
    /\ stdout' = stdout \o ExitLines
    /\ mainpc' = "returned"
    /\ UNCHANGED <<display_mode, traffic, ring, quota, produced, ready, fresh, cpc, buffers, idx,
                   total, filtered, counters, output, abort_req, next_handle, exit_code>>
    /\ UNCHANGED <<parserVars, filterVars, renderVars>>

\* #[tokio::main]: the runtime is dropped once every task stands at its
\* await, which drops the tasks, and the process exits with main's result
ProcessExit ==
    /\ mainpc = "returned"
    /\ \A c \in Cpus : cpc[c] \in {"await", "aborted", "finished"}
    /\ cpc' = [c \in Cpus |-> IF cpc[c] = "await" THEN "aborted" ELSE cpc[c]]
    /\ exit_code' = Some(0)
    /\ mainpc' = "exited"
    /\ UNCHANGED <<display_mode, traffic, ring, quota, produced, ready, fresh, buffers, idx,
                   total, filtered, counters, output, stdout, abort_req, next_handle>>
    /\ UNCHANGED <<parserVars, filterVars, renderVars>>

(***************************************************************************)
(* Strings                                                                 *)
(* A str is the sequence of its chars (code points).  A String built with  *)
(* format! / push_str is the sequence of the pieces pushed: each piece is  *)
(* the format string of the source with the values it was given.           *)
(***************************************************************************)
Max(a, b) == IF a > b THEN a ELSE b

\* one piece of an output String
Tok(fmt, args) == <<fmt, args>>

\* String::from_utf8_lossy: an ASCII byte is its char; a byte >= 0x80 that
\* is not part of a well-formed multi-byte sequence is replaced by U+FFFD.
\* In the payloads tried no byte >= 0xC2 is followed by a continuation byte
\* (0x80..0xBF), so they hold no part of a well-formed multi-byte sequence.
Utf8Lossy(bytes) == [k \in 1..Len(bytes) |-> IF bytes[k] < 128 THEN bytes[k] ELSE 65533]

\* str::lines: split at "\n"; a "\r" right before the "\n" goes with it; no
\* empty last line after a final "\n"
RECURSIVE Lines(_)
Lines(text) ==
    IF text = <<>> THEN <<>>
    ELSE LET nl == {k \in 1..Len(text) : text[k] = 10}
         IN  IF nl = {} THEN <<text>>
             ELSE LET k == CHOOSE m \in nl : \A j \in nl : m <= j
                      line == SubSeq(text, 1, k - 1)
                      stripped == IF line # <<>> /\ line[Len(line)] = 13
                                    THEN SubSeq(line, 1, Len(line) - 1)
                                    ELSE line
                  IN  <<stripped>> \o Lines(SubSeq(text, k + 1, Len(text)))

\* char::is_whitespace, on the chars the payloads tried can hold
IsWhitespace(c) == c \in {9, 10, 11, 12, 13, 32}

\* str::trim
Trim(s) ==
    LET keep == {k \in 1..Len(s) : ~IsWhitespace(s[k])}
    IN  IF keep = {} THEN <<>>
        ELSE SubSeq(s, CHOOSE m \in keep : \A j \in keep : m <= j,
                       CHOOSE m \in keep : \A j \in keep : m >= j)

\* str::starts_with
StartsWith(s, prefix) ==
    Len(s) >= Len(prefix) /\ SubSeq(s, 1, Len(prefix)) = prefix

\* u8::is_ascii_graphic, u8::is_ascii_whitespace
IsAsciiGraphic(b) == 33 <= b /\ b <= 126
IsAsciiWhitespace(b) == b \in {9, 10, 12, 13, 32}

\* the string literals of parse_http, as chars
GET == <<71, 69, 84, 32>>
POST == <<80, 79, 83, 84, 32>>
PUT == <<80, 85, 84, 32>>
DELETE == <<68, 69, 76, 69, 84, 69, 32>>
HEAD == <<72, 69, 65, 68, 32>>
OPTIONS == <<79, 80, 84, 73, 79, 78, 83, 32>>
PATCH == <<80, 65, 84, 67, 72, 32>>
HTTP_SLASH == <<72, 84, 84, 80, 47>>
RequestMethods == {GET, POST, PUT, DELETE, HEAD, OPTIONS, PATCH}

(***************************************************************************)
(* Filter::from_opt                                                        *)
(***************************************************************************)
\* str::to_lowercase, on the protocol and mode names tried
ToLowercase(s) ==
    CASE s = "TCP" -> "tcp"
      [] s = "UDP" -> "udp"
      [] s = "ICMP" -> "icmp"
      [] OTHER -> s

\* ip.parse::<Ipv4Addr>().ok(): an address string is kept as its dotted
\* decimal numbers; a string that is no address has no four numbers
ParseIpv4Addr(s) == IF Len(s) = 4 THEN Some(s) ELSE None

\* from_opt without the conversions to network byte order
FromOptHostOrder(o) ==
    Filter(CASE ToLowercase(o.protocol) = "tcp" -> Some(6)
             [] ToLowercase(o.protocol) = "udp" -> Some(17)
             [] ToLowercase(o.protocol) = "icmp" -> Some(1)
             [] OTHER -> None,
           IF o.src_ip = None THEN None ELSE ParseIpv4Addr(o.src_ip[1]),
           IF o.dst_ip = None THEN None ELSE ParseIpv4Addr(o.dst_ip[1]),
           o.src_port,
           o.dst_port)

\* Filter::from_opt: u32::from(addr) is the address with its first number
\* most significant; to_be turns it, and the ports, into network byte order
FromOpt(o) ==
    LET to_be32(a) == IF a = None THEN None ELSE Some(SwapBytes32(a[1]))
        to_be16(p) == IF p = None THEN None ELSE Some(SwapBytes16(p[1]))
    IN  Filter(CASE ToLowercase(o.protocol) = "tcp" -> Some(6)
                 [] ToLowercase(o.protocol) = "udp" -> Some(17)
                 [] ToLowercase(o.protocol) = "icmp" -> Some(1)
                 [] OTHER -> None,
               to_be32(IF o.src_ip = None THEN None ELSE ParseIpv4Addr(o.src_ip[1])),
               to_be32(IF o.dst_ip = None THEN None ELSE ParseIpv4Addr(o.dst_ip[1])),
               to_be16(o.src_port),
               to_be16(o.dst_port))

\* parse_display_mode
ParseDisplayMode(mode) ==
    CASE ToLowercase(mode) = "hex" -> "Hex"
      [] ToLowercase(mode) = "text" -> "Text"
      [] ToLowercase(mode) = "protocol" -> "Protocol"
      [] ToLowercase(mode) = "json" -> "Json"
      [] OTHER -> "Basic"

\* The usize n = hi * 2^60 + lo, for hi < 16 and lo < 2^26.  --page-lines
\* takes any usize, and the renderer multiplies it by 16: the values that
\* matter to that product are kept in two parts.
Wide(hi, lo) == [hi |-> hi, lo |-> lo]
Small(n) == Wide(0, n)
IsZero(n) == n.hi = 0 /\ n.lo = 0

\* n * 16 does not fit a usize of 64 bits: hi * 2^64 + lo * 16 >= 2^64
Mul16Overflows(n) == n.hi > 0

\* n * 16 modulo 2^64, the product of a build without overflow checks
WrappingMul16(n) == n.lo * 16

\* (total_lines + n - 1) / n, for n > 0 and 0 <= total_lines <= 2^26: with
\* hi > 0 the dividend is at least n and less than 2 * n as soon as
\* total_lines > 0
PagesOf(total_lines, n) ==
    IF n.hi = 0 THEN (total_lines + n.lo - 1) \div n.lo
    ELSE IF total_lines > 0 THEN 1 ELSE 0

\* page * n, for page = 0 or hi = 0
TimesPage(page, n) == IF page = 0 THEN 0 ELSE page * n.lo

\* min((page + 1) * n, total_lines), for total_lines <= 2^26 and page = 0
\* or hi = 0
EndLine(page, n, total_lines) ==
    IF n.hi = 0 THEN Min((page + 1) * n.lo, total_lines) ELSE total_lines

Opt(protocol, src_ip, dst_ip, src_port, dst_port, mode, payload_bytes, payload_full, page_lines) ==
    [protocol |-> protocol, src_ip |-> src_ip, dst_ip |-> dst_ip,
     src_port |-> src_port, dst_port |-> dst_port, mode |-> mode,
     payload_bytes |-> payload_bytes, payload_full |-> payload_full,
     page_lines |-> page_lines]

\* the defaults of the command line
DefaultOpt == Opt("all", None, None, None, None, "basic", 128, FALSE, Small(0))

(***************************************************************************)
(* The renderers                                                           *)
(***************************************************************************)
\* format_ip: the four numbers of the address, first one first
FormatIp(ip) == SwapBytes32(ip)

\* format_protocol
FormatProtocol(protocol) ==
    CASE protocol = 6 -> "TCP"
      [] protocol = 17 -> "UDP"
      [] protocol = 1 -> "ICMP"
      [] OTHER -> "UNKNOWN"

\* format_event
FormatEvent(event) ==
    IF event.protocol \in {6, 17}
      THEN << Tok(FormatProtocol(event.protocol), <<>>),
              Tok(" {}:{} -> {}:{} ({}b)",
                  FormatIp(event.src_ip) \o <<SwapBytes16(event.src_port)>>
                    \o FormatIp(event.dst_ip) \o <<SwapBytes16(event.dst_port)>>
                    \o <<event.packet_size>>) >>
      ELSE << Tok(FormatProtocol(event.protocol), <<>>),
              Tok(" {} -> {} ({}b)",
                  FormatIp(event.src_ip) \o FormatIp(event.dst_ip)
                    \o <<event.packet_size>>) >>

\* one row of a hex dump: the offset, the bytes in hex, the bytes as ASCII
RowFmt == "{:04x}: {:02x} ..  {ascii}\n"
HexRow(offset, chunk) == Tok(RowFmt, <<offset>> \o chunk)

\* format_hex_dump
FormatHexDump(pbytes, bytes_to_show) ==
    LET n == Min(bytes_to_show, Len(pbytes))
    IN  [r \in 1..((n + 15) \div 16) |->
            HexRow((r - 1) * 16, SubSeq(pbytes, (r - 1) * 16 + 1, Min(r * 16, n)))]

\* the rows start_line..end_line-1 of format_hex_dump_paged
PageRows(pbytes, bytes_to_show, start_line, end_line) ==
    [r \in 1..(end_line - start_line) |->
        LET line == start_line + r - 1
            line_start == line * 16
            line_end == Min(line_start + 16, bytes_to_show)
        IN  HexRow(line_start, SubSeq(pbytes, line_start + 1, line_end))]

\* format_hex_dump_paged, from page number `page` on; the page header is
\* written without the two words of its text, which are not ASCII
PageFmt == "--- {} ({}-{}) ---\n"
RECURSIVE PagesFrom(_, _, _, _)
PagesFrom(pbytes, bytes_to_show, page_lines, page) ==
    LET total_lines == (bytes_to_show + 15) \div 16
        pages == PagesOf(total_lines, page_lines)
        start_line == TimesPage(page, page_lines)
        end_line == EndLine(page, page_lines, total_lines)
        start_byte == start_line * 16
        end_byte == Min(end_line * 16, bytes_to_show)
    IN  IF page >= pages THEN <<>>
        ELSE <<Tok(PageFmt, <<page + 1, start_byte, end_byte - 1>>)>>
             \o PageRows(pbytes, bytes_to_show, start_line, end_line)
             \o (IF page < pages - 1 THEN <<Tok("\n", <<>>)>> ELSE <<>>)
             \o PagesFrom(pbytes, bytes_to_show, page_lines, page + 1)

\* format_hex_dump_paged
FormatHexDumpPaged(pbytes, bytes_to_show, page_lines) ==
    LET n == Min(bytes_to_show, Len(pbytes))
    IN  IF IsZero(page_lines) THEN FormatHexDump(pbytes, n)
        ELSE PagesFrom(pbytes, n, page_lines, 0)

\* s[1], "\n", s[2], "\n", ..: Vec::join("\n")
RECURSIVE Join(_)
Join(s) ==
    IF Len(s) <= 1 THEN s
    ELSE <<Head(s), Tok("\n", <<>>)>> \o Join(Tail(s))

\* format_text_payload: printable_count / len > 0.8 holds exactly when
\* 10 * printable_count > 8 * len (0 / 0 is NaN, which is not > 0.8)
FormatTextPayload(pbytes) ==
    LET printable_count ==
            Cardinality({k \in 1..Len(pbytes) :
                IsAsciiGraphic(pbytes[k]) \/ IsAsciiWhitespace(pbytes[k])})
        lines == Lines(Utf8Lossy(pbytes))
    IN  IF 10 * printable_count > 8 * Len(pbytes) /\ Len(pbytes) > 0
          THEN Join([k \in 1..Min(10, Len(lines)) |-> Tok("  {}", lines[k])])
          ELSE FormatHexDump(pbytes, Len(pbytes))

\* the header lines of parse_http: lines.iter().skip(1).take(20), trimmed,
\* up to the first empty one
RECURSIVE HeaderLines(_, _)
HeaderLines(lines, k) ==
    IF k > Len(lines) \/ k > 21 \/ Trim(lines[k]) = <<>> THEN <<>>
    ELSE <<Tok("  {}\n", Trim(lines[k]))>> \o HeaderLines(lines, k + 1)

\* parse_http
ParseHttp(pbytes) ==
    LET lines == Lines(Utf8Lossy(pbytes))
    IN  IF lines = <<>> THEN None
        ELSE LET first_line == Trim(lines[1])
             IN  IF \E m \in RequestMethods : StartsWith(first_line, m)
                   THEN Some(<<Tok("HTTP Request:\n", <<>>), Tok("  {}\n", first_line)>>
                             \o HeaderLines(lines, 2))
                 ELSE IF StartsWith(first_line, HTTP_SLASH)
                   THEN Some(<<Tok("HTTP Response:\n", <<>>), Tok("  {}\n", first_line)>>
                             \o HeaderLines(lines, 2))
                 ELSE None

\* format_json: everything but the timestamp, which is the time of the call
FormatJson(event) ==
    << Tok(FormatProtocol(event.protocol), <<>>),
       Tok("{json}",
           FormatIp(event.src_ip) \o FormatIp(event.dst_ip)
             \o <<SwapBytes16(event.src_port), SwapBytes16(event.dst_port),
                  event.packet_size, event.tcp_flags, event.payload_len>>
             \o SubSeq(event.payload, 1, event.payload_len)) >>

(***************************************************************************)
(* format_event_with_mode                                                  *)
(***************************************************************************)
\* a NetworkEvent with the payload given; of payload[] only the first
\* payload_len bytes are kept
RenderEvent(protocol, src_port, dst_port, bytes) ==
    [UserEvent(protocol, IpA, IpB, src_port, dst_port, Len(bytes))
        EXCEPT !.payload = bytes]

\* lines 561-565
EffectiveBytes(event, payload_bytes, payload_full) ==
    IF payload_full THEN event.payload_len
    ELSE Min(payload_bytes, event.payload_len)

\* the slices format_hex_dump / format_hex_dump_paged take of payload
HexDumpSlices(bytes_to_show) == {<<0, bytes_to_show>>}
PagedSlices(bytes_to_show) ==
    { <<line * 16, Min(line * 16 + 16, bytes_to_show)>> :
        line \in 0..(((bytes_to_show + 15) \div 16) - 1) }

\* the slice format_text_payload takes when it falls back to format_hex_dump
TextSlices(pbytes) ==
    IF FormatTextPayload(pbytes) = FormatHexDump(pbytes, Len(pbytes))
         /\ pbytes # <<>>
      THEN HexDumpSlices(Len(pbytes))
      ELSE {}

\* format_event_with_mode has returned s
Return(s) ==
    /\ rendered' = Some(s)
    /\ rpc' = "done"

\* line 568
ModeBasic ==
    /\ rpc = "format"
    /\ ParseDisplayMode(opt.mode) = "Basic"
    /\ Return(FormatEvent(revent))
    /\ UNCHANGED <<opt, revent, question_count, pos, question, domain, dns_output,
                   indexed, overrun, dissector>>
    /\ UNCHANGED <<parserVars, filterVars, consumerVars>>

\* the test of line 574, once page_lines * 16 has a value
Paginate(effective_bytes, page_lines) ==
    ~IsZero(page_lines) /\ effective_bytes > WrappingMul16(page_lines)

\* line 574 multiplies when page_lines > 0
Line574Overflows == ~IsZero(opt.page_lines) /\ Mul16Overflows(opt.page_lines)

\* lines 569-587.  Where page_lines * 16 overflows, a build with overflow
\* checks panics there and a build without them goes on with the wrapped
\* product.
ModeHex ==
    /\ rpc = "format"
    /\ ParseDisplayMode(opt.mode) = "Hex"
    /\ \/ /\ Line574Overflows
          /\ rpc' = "overflow"
          /\ UNCHANGED <<rendered, indexed>>
       \/ LET effective_bytes ==
                  EffectiveBytes(revent, opt.payload_bytes, opt.payload_full)
              pbytes == SubSeq(revent.payload, 1, revent.payload_len)
              head == FormatEvent(revent)
                        \o <<Tok("\nPayload ({} bytes, {} bytes):\n",
                                 <<revent.payload_len, effective_bytes>>)>>
          IN  IF Paginate(effective_bytes, opt.page_lines)
                THEN /\ Return(head \o FormatHexDumpPaged(pbytes, effective_bytes,
                                                          opt.page_lines))
                     /\ indexed' = indexed \cup {<<0, revent.payload_len>>}
                                           \cup PagedSlices(effective_bytes)
                ELSE /\ Return(head \o FormatHexDump(pbytes, effective_bytes))
                     /\ indexed' = indexed \cup {<<0, revent.payload_len>>}
                                           \cup HexDumpSlices(effective_bytes)
    /\ UNCHANGED <<opt, revent, question_count, pos, question, domain, dns_output,
                   overrun, dissector>>
    /\ UNCHANGED <<parserVars, filterVars, consumerVars>>

\* lines 588-596: what the Text arm returns
TextModeOutput(event, payload_bytes, payload_full) ==
    IF event.payload_len > 0
      THEN FormatEvent(event) \o <<Tok("\nContent:\n", <<>>)>>
             \o FormatTextPayload(SubSeq(event.payload, 1,
                    EffectiveBytes(event, payload_bytes, payload_full)))
      ELSE FormatEvent(event)

\* the Text arm
ModeText ==
    /\ rpc = "format"
    /\ ParseDisplayMode(opt.mode) = "Text"
    /\ Return(TextModeOutput(revent, opt.payload_bytes, opt.payload_full))
    /\ LET bytes == SubSeq(revent.payload, 1,
                           EffectiveBytes(revent, opt.payload_bytes, opt.payload_full))
       IN  indexed' = IF revent.payload_len > 0
                        THEN indexed \cup {<<0, Len(bytes)>>} \cup TextSlices(bytes)
                        ELSE indexed
    /\ UNCHANGED <<opt, revent, question_count, pos, question, domain, dns_output,
                   overrun, dissector>>
    /\ UNCHANGED <<parserVars, filterVars, consumerVars>>

\* line 598
ModeJson ==
    /\ rpc = "format"
    /\ ParseDisplayMode(opt.mode) = "Json"
    /\ Return(FormatJson(revent))
    /\ indexed' = indexed \cup {<<0, revent.payload_len>>}
    /\ UNCHANGED <<opt, revent, question_count, pos, question, domain, dns_output,
                   overrun, dissector>>
    /\ UNCHANGED <<parserVars, filterVars, consumerVars>>

(***************************************************************************)
(* format_protocol_parse and parse_dns                                     *)
(***************************************************************************)
\* lines 469-487: the text of format_event, and "\n"
ProtocolHeader(event) == FormatEvent(event) \o <<Tok("\n", <<>>)>>

\* line 489
ProtocolPayload(event) == SubSeq(event.payload, 1, event.payload_len)

\* the tests of lines 492 and 499
IsHttpPort(event) ==
    event.protocol = 6
      /\ (SwapBytes16(event.dst_port) = 80 \/ SwapBytes16(event.src_port) = 80)
IsDnsPort(event) ==
    event.protocol = 17
      /\ (SwapBytes16(event.dst_port) = 53 \/ SwapBytes16(event.src_port) = 53)

\* line 507: no dissector produced text
Fallback ==
    /\ Return(ProtocolHeader(revent) \o FormatTextPayload(ProtocolPayload(revent)))
    /\ indexed' = indexed \cup {<<0, revent.payload_len>>}
                          \cup TextSlices(ProtocolPayload(revent))
    /\ dissector' = "none"

\* lines 597, 464-497 and 506-507: Protocol mode, up to the call of parse_dns
FormatProtocolParse ==
    /\ rpc = "format"
    /\ ParseDisplayMode(opt.mode) = "Protocol"
    /\ IF IsHttpPort(revent) /\ ParseHttp(ProtocolPayload(revent)) # None
         THEN /\ Return(ProtocolHeader(revent) \o ParseHttp(ProtocolPayload(revent))[1])
              /\ indexed' = indexed \cup {<<0, revent.payload_len>>}
              /\ dissector' = "http"
         ELSE IF IsDnsPort(revent)
           THEN /\ rpc' = "parse_dns"
                /\ indexed' = indexed \cup {<<0, revent.payload_len>>}
                /\ UNCHANGED <<rendered, dissector>>
           ELSE Fallback
    /\ UNCHANGED <<opt, revent, question_count, pos, question, domain, dns_output,
                   overrun>>
    /\ UNCHANGED <<parserVars, filterVars, consumerVars>>

\* u16::from_be_bytes([hi, lo])
FromBeBytes(hi, lo) == hi * 256 + lo

\* lines 501-503 after parse_dns has returned Some(output)
DnsReturn(dns) ==
    /\ Return(ProtocolHeader(revent) \o dns)
    /\ dissector' = "dns"

\* lines 398-411: the length test, the flags and the question count
ParseDnsStart ==
    /\ rpc = "parse_dns"
    /\ LET pbytes == ProtocolPayload(revent)
       IN  IF Len(pbytes) < 12
             THEN /\ Fallback
                  /\ UNCHANGED <<question_count, pos, question, dns_output>>
             ELSE /\ indexed' = indexed \cup {<<2, 3>>, <<3, 4>>, <<4, 5>>, <<5, 6>>}
                  /\ question_count' = FromBeBytes(pbytes[5], pbytes[6])
                  /\ dns_output' =
                        << Tok(IF FromBeBytes(pbytes[3], pbytes[4]) >= 32768
                                 THEN "DNS Response" ELSE "DNS Query", <<>>),
                           Tok(" ({} questions)\n", <<question_count'>>) >>
                  /\ pos' = 12
                  /\ question' = 0
                  /\ rpc' = "dns_for"
                  /\ UNCHANGED <<rendered, dissector>>
    /\ UNCHANGED <<opt, revent, domain, overrun>>
    /\ UNCHANGED <<parserVars, filterVars, consumerVars>>

\* lines 412-420: the head of `for i in 0..question_count`
DnsFor ==
    /\ rpc = "dns_for"
    /\ IF question >= question_count \/ pos >= revent.payload_len
         THEN /\ DnsReturn(dns_output)
              /\ UNCHANGED <<dns_output, domain>>
         ELSE /\ dns_output' = Append(dns_output, Tok("  Query {}: ", <<question + 1>>))
              /\ domain' = <<>>
              /\ rpc' = "dns_loop"
              /\ UNCHANGED <<rendered, dissector>>
    /\ UNCHANGED <<opt, revent, question_count, pos, question, indexed, overrun>>
    /\ UNCHANGED <<parserVars, filterVars, consumerVars>>

\* a test that lets a label end one byte past the payload
LabelFitsOffByOne(p, len, n) == ~(p + len > n + 1)

\* line 430: pos + len > payload.len() is false
LabelFits(p, len, n) == ~(p + len > n)

\* lines 421-439: one iteration of the label loop.  payload[a..b] panics
\* unless b <= payload.len().
DnsLoop ==
    /\ rpc = "dns_loop"
    /\ LET pbytes == ProtocolPayload(revent)
           n == Len(pbytes)
       IN  IF pos >= n
             THEN /\ rpc' = "dns_type"
                  /\ UNCHANGED <<pos, domain, indexed, overrun>>
             ELSE LET len == pbytes[pos + 1]
                  IN  IF len = 0
                        THEN /\ pos' = pos + 1
                             /\ indexed' = indexed \cup {<<pos, pos + 1>>}
                             /\ rpc' = "dns_type"
                             /\ UNCHANGED <<domain, overrun>>
                      ELSE IF ~LabelFits(pos + 1, len, n)
                        THEN /\ pos' = pos + 1
                             /\ indexed' = indexed \cup {<<pos, pos + 1>>}
                             /\ overrun' = TRUE
                             /\ rpc' = "dns_type"
                             /\ UNCHANGED domain
                      ELSE /\ indexed' = indexed \cup {<<pos, pos + 1>>,
                                                       <<pos + 1, pos + 1 + len>>}
                           /\ IF pos + 1 + len > n
                                THEN /\ rpc' = "panic"
                                     /\ UNCHANGED <<pos, domain>>
                                ELSE /\ domain' =
                                          (IF domain # <<>> THEN Append(domain, 46)
                                           ELSE domain)
                                          \o Utf8Lossy(SubSeq(pbytes, pos + 2,
                                                              pos + 1 + len))
                                     /\ pos' = pos + 1 + len
                                     /\ rpc' = rpc
                           /\ UNCHANGED overrun
    /\ UNCHANGED <<opt, revent, question_count, question, dns_output, dissector,
                   rendered>>
    /\ UNCHANGED <<parserVars, filterVars, consumerVars>>

\* match qtype
TypeStr(qtype) ==
    CASE qtype = 1 -> "A"
      [] qtype = 2 -> "NS"
      [] qtype = 5 -> "CNAME"
      [] qtype = 28 -> "AAAA"
      [] OTHER -> "UNKNOWN"

\* lines 441-457: the domain, then QTYPE and QCLASS
DnsType ==
    /\ rpc = "dns_type"
    /\ LET pbytes == ProtocolPayload(revent)
           with_domain == Append(dns_output, Tok("{}", domain))
       IN  IF pos + 4 > Len(pbytes)
             THEN /\ dns_output' = with_domain
                  /\ DnsReturn(with_domain)
                  /\ UNCHANGED <<pos, question, indexed>>
             ELSE /\ indexed' = indexed \cup {<<pos, pos + 1>>, <<pos + 1, pos + 2>>}
                  /\ dns_output' =
                        with_domain \o
                        << Tok(" (type: ", <<>>),
                           Tok(TypeStr(FromBeBytes(pbytes[pos + 1], pbytes[pos + 2])),
                               <<>>),
                           Tok(")\n", <<>>) >>
                  /\ pos' = pos + 4
                  /\ question' = question + 1
                  /\ rpc' = "dns_for"
                  /\ UNCHANGED <<rendered, dissector>>
    /\ UNCHANGED <<opt, revent, question_count, domain, overrun>>
    /\ UNCHANGED <<parserVars, filterVars, consumerVars>>

(***************************************************************************)
(* The events and command lines the renderers are tried on                 *)
(***************************************************************************)
\* s without its last k elements
DropLast(s, k) == SubSeq(s, 1, Max(Len(s) - k, 0))

\* the sequences of at most n elements of S, concatenated
RECURSIVE Concats(_, _)
Concats(S, n) ==
    IF n = 0 THEN {<<>>}
    ELSE Concats(S, n - 1) \cup {a \o b : a \in S, b \in Concats(S, n - 1)}

ClientPort == SwapBytes16(40000)

\* "/ H\r\nA: b\r\n\r\nx": the rest of a start line, a header, the empty line, a body
HttpRest == <<47, 32, 72, 13, 10, 65, 58, 32, 98, 13, 10, 13, 10, 120>>

\* nothing, "\n", "\r\n", " ", " \r\n\n" in front of the start line
HttpLeads == {<<>>, <<10>>, <<13, 10>>, <<32>>, <<32, 13, 10, 10>>}

\* the methods and "HTTP/"; "GET" without its space, "get ", "SSH-", nothing
HttpStarts ==
    RequestMethods \cup {HTTP_SLASH, <<71, 69, 84>>, <<103, 101, 116, 32>>,
                         <<83, 83, 72, 45>>, <<>>}

HttpPayloads ==
    {lead \o start \o rest :
        lead \in HttpLeads, start \in HttpStarts, rest \in {<<>>, HttpRest, <<47, 10, 200>>}}

ProtocolOpt == [DefaultOpt EXCEPT !.mode = "protocol"]

HttpEvents ==
    {RenderEvent(IPPROTO_TCP, ports[1], ports[2], bytes) :
        ports \in {<<ClientPort, PortHttp>>, <<PortHttp, ClientPort>>,
                   <<ClientPort, PortDns>>},
        bytes \in HttpPayloads}

\* a DNS header: the id, the flags, QDCOUNT and three counts of zero
DnsHeader(flags_hi, qd_hi, qd_lo) == <<0, 1, flags_hi, 0, qd_hi, qd_lo, 0, 0, 0, 0, 0, 0>>

\* a query with 1 question, a response with 2, a query with 65535, a response with 0
DnsHeaders ==
    {DnsHeader(1, 0, 1), DnsHeader(129, 0, 2), DnsHeader(1, 255, 255), DnsHeader(129, 0, 0)}

\* the labels "a" and "www"; the end of a name with TYPE A or AAAA and
\* CLASS IN; a length byte of 200
DnsParts ==
    {<<1, 97>>, <<3, 119, 119, 119>>, <<0, 0, 1, 0, 1>>, <<0, 0, 28, 0, 1>>, <<200>>}

\* parts in a question section
MaxDnsParts == 4

\* headers cut short, and headers followed by parts, whole or cut short
DnsPayloads ==
    {DropLast(h, cut) : h \in DnsHeaders, cut \in {1, 12}}
      \cup {h \o DropLast(body, cut) :
              h \in DnsHeaders, body \in Concats(DnsParts, MaxDnsParts), cut \in 0..2}

DnsEvents ==
    {RenderEvent(IPPROTO_UDP, ClientPort, PortDns, bytes) : bytes \in DnsPayloads}

\* a payload of n bytes that is not text, and one that is
BinaryPayload(n) == [k \in 1..n |-> (k * 37 + 7) % 256]
TextPayload(n) == [k \in 1..n |-> IF k % 7 = 0 THEN 10 ELSE 97 + (k % 26)]

\* rows of a page
MaxPageLines == 3

\* payload lengths around the row and page boundaries, and the capacity
PayloadLens ==
    {n \in 0..MAX_PAYLOAD_SIZE :
        \/ n = MAX_PAYLOAD_SIZE
        \/ \E r \in 0..MaxPageLines : n \in (16 * r - 1)..(16 * r + 2)}

ModeEvents ==
    {RenderEvent(pp[1], pp[2], pp[3], bytes) :
        pp \in {<<IPPROTO_ICMP, 0, 0>>, <<IPPROTO_TCP, ClientPort, SwapBytes16(8080)>>,
                <<IPPROTO_UDP, PortDns, ClientPort>>},
        bytes \in {BinaryPayload(n) : n \in PayloadLens}
                    \cup {TextPayload(n) : n \in PayloadLens}}

\* 2^60 and 2^60 + 1 rows of a page
WidePageLines == {Wide(1, 0), Wide(1, 1)}

ModeOpts ==
    {Opt("all", None, None, None, None, mode, payload_bytes, payload_full, page_lines) :
        mode \in {"basic", "hex", "text", "protocol", "json"},
        payload_bytes \in {0, 20, 128}, payload_full \in BOOLEAN,
        page_lines \in {Small(n) : n \in 0..MaxPageLines} \cup WidePageLines}

\* what a specification that renders nothing leaves alone
RenderOff ==
    /\ revent = UserEvent(IPPROTO_ICMP, IpA, IpB, 0, 0, 0)
    /\ rpc = "done"
    /\ question_count = 0
    /\ pos = 0
    /\ question = 0
    /\ domain = <<>>
    /\ dns_output = <<>>
    /\ indexed = {}
    /\ overrun = FALSE
    /\ dissector = "none"
    /\ rendered = None

RenderIdle == opt = DefaultOpt /\ RenderOff

\* format_event_with_mode is called with an event and the options
RenderStart ==
    /\ \/ opt = ProtocolOpt /\ revent \in HttpEvents
       \/ opt = ProtocolOpt /\ revent \in DnsEvents
       \/ opt \in ModeOpts /\ revent \in ModeEvents
    /\ rpc = "format"
    /\ question_count = 0
    /\ pos = 0
    /\ question = 0
    /\ domain = <<>>
    /\ dns_output = <<>>
    /\ indexed = {}
    /\ overrun = FALSE
    /\ dissector = "none"
    /\ rendered = None

\* command lines with criteria, and events whose fields tell the byte orders apart
ConfigOpts ==
    {Opt(pr, si, di, sp, dp, "basic", 128, FALSE, Small(0)) :
        pr \in {"all", "tcp", "UDP"},
        si \in {None, Some(<<192, 168, 1, 5>>), Some(<<>>)},
        di \in {None, Some(<<5, 1, 168, 192>>)},
        sp \in {None, Some(53)},
        dp \in {None, Some(53), Some(13568), Some(80)}}

ConfigEvents ==
    {UserEvent(pr, si, di, sp, dp, 0) :
        pr \in {IPPROTO_TCP, IPPROTO_UDP},
        si \in {<<192, 168, 1, 5>>, <<5, 1, 168, 192>>},
        di \in {<<192, 168, 1, 5>>, <<5, 1, 168, 192>>},
        sp \in {53, 13568}, dp \in {53, 13568, 20480}}

\* main, lines 604-611, and an event arriving
ConfigStart ==
    /\ opt \in ConfigOpts
    /\ filter = FromOpt(opt)
    /\ mevent \in ConfigEvents
    /\ mresult = None

(***************************************************************************)
(* Specifications                                                          *)
(***************************************************************************)
ParserStart ==
    /\ pkt \in {p \in Frames : CanonicalFrame(p)}
    /\ ppc = "eth"
    /\ ip_hdr_len = 0
    /\ l4_off = 0
    /\ payload_ptr = 0
    /\ to_copy = 0
    /\ i = 0
    /\ payload = ZeroPayload
    /\ payload_len = 0
    /\ reads = {}
    /\ writes = {}
    /\ events = <<>>

\* the parts of the state a specification does not use
ParserIdle ==
    /\ pkt = [len |-> 0, ether_type |-> ETH_P_IP, ihl |-> 5, protocol |-> IPPROTO_TCP,
              doff |-> 5]
    /\ ppc = "pass"
    /\ ip_hdr_len = 0
    /\ l4_off = 0
    /\ payload_ptr = 0
    /\ to_copy = 0
    /\ i = 0
    /\ payload = <<>>
    /\ payload_len = 0
    /\ reads = {}
    /\ writes = {}
    /\ events = <<>>

FilterIdle ==
    /\ filter = NoFilter
    /\ mevent = UserEvent(IPPROTO_ICMP, IpA, IpB, 0, 0, 0)
    /\ mresult = None

MatchIdle ==
    /\ mevent = UserEvent(IPPROTO_ICMP, IpA, IpB, 0, 0, 0)
    /\ mresult = Some(TRUE)

ConsumerIdle ==
    /\ display_mode = "Basic"
    /\ traffic = 0
    /\ ring = <<>>
    /\ quota = <<>>
    /\ produced = <<>>
    /\ ready = <<>>
    /\ fresh = <<>>
    /\ cpc = <<>>
    /\ buffers = <<>>
    /\ idx = <<>>
    /\ total = <<>>
    /\ filtered = <<>>
    /\ counters = <<>>
    /\ output = <<>>
    /\ stdout = <<>>
    /\ abort_req = <<>>
    /\ mainpc = "exited"
    /\ next_handle = 1
    /\ exit_code = Some(0)

InitParser == ParserStart /\ FilterIdle /\ ConsumerIdle /\ RenderIdle

NextParser ==
    \/ ParseEth
    \/ ParseIp
    \/ ParseTcp
    \/ ParseUdp
    \/ ParseIcmp
    \/ ParseOther
    \/ CopyByte
    \/ EmitTcp
    \/ EmitUdp
    \/ EmitIcmp

SpecParser == InitParser /\ [][NextParser]_vars

InitFilter == FilterStart /\ ParserIdle /\ ConsumerIdle /\ RenderIdle

NextFilter == CallMatches

SpecFilter == InitFilter /\ [][NextFilter]_vars

InitConsumer == ConsumerStart /\ MatchIdle /\ ParserIdle /\ RenderIdle

NextConsumer ==
    \/ \E c \in Cpus : Produce(c)
    \/ \E c \in Cpus : AwaitReadable(c)
    \/ \E c \in Cpus : AwaitFailed(c)
    \/ \E c \in Cpus : ReadEvents(c)
    \/ \E c \in Cpus : ReadEventsFailed(c)
    \/ \E c \in Cpus : ProcessRecord(c)
    \/ \E c \in Cpus : Println(c)
    \/ \E c \in Cpus : EndBatch(c)
    \/ \E c \in Cpus : Cancelled(c)
    \/ CtrlC
    \/ AbortHandle
    \/ MainReturn
    \/ ProcessExit

SpecConsumer == InitConsumer /\ [][NextConsumer]_vars

\* a task that is not suspended at its await keeps running: between two
\* awaits the task body does not yield
TaskRuns(c) ==
    \/ ReadEvents(c)
    \/ ReadEventsFailed(c)
    \/ ProcessRecord(c)
    \/ Println(c)
    \/ EndBatch(c)

\* main runs on after ctrl_c.await, the runtime shuts down after main
\* returns, and the worker threads run the tasks they have polled
ShutdownFairness ==
    /\ WF_vars(AbortHandle)
    /\ WF_vars(MainReturn)
    /\ WF_vars(ProcessExit)
    /\ \A c \in Cpus : WF_vars(TaskRuns(c))

\* the shutdown, under one configuration and one traffic pattern
InitShutdown == InitConsumer /\ traffic = 0 /\ display_mode = "Basic"

SpecShutdown == InitShutdown /\ [][NextConsumer]_vars /\ ShutdownFairness

InitConfig == ConfigStart /\ ParserIdle /\ ConsumerIdle /\ RenderOff

NextConfig == CallMatches

SpecConfig == InitConfig /\ [][NextConfig]_vars

InitRender == RenderStart /\ FilterIdle /\ ParserIdle /\ ConsumerIdle

NextRender ==
    \/ ModeBasic
    \/ ModeHex
    \/ ModeText
    \/ ModeJson
    \/ FormatProtocolParse
    \/ ParseDnsStart
    \/ DnsFor
    \/ DnsLoop
    \/ DnsType

\* format_event_with_mode is plain code: once called it runs on
SpecRender == InitRender /\ [][NextRender]_vars /\ WF_vars(NextRender)

InitDrain == DrainStart /\ MatchIdle /\ ParserIdle /\ RenderIdle

\* the consumer tasks while main waits for Ctrl-C and no read or wait fails
NextDrain ==
    \/ \E c \in Cpus : Produce(c)
    \/ \E c \in Cpus : AwaitReadable(c)
    \/ \E c \in Cpus : ReadEvents(c)
    \/ \E c \in Cpus : ProcessRecord(c)
    \/ \E c \in Cpus : Println(c)
    \/ \E c \in Cpus : EndBatch(c)

\* the runtime polls a task whose channel is readable, and a task that is
\* polled runs up to its next await
DrainFairness ==
    \A c \in Cpus : WF_vars(AwaitReadable(c)) /\ WF_vars(TaskRuns(c))

SpecDrain == InitDrain /\ [][NextDrain]_vars /\ DrainFairness

(***************************************************************************)
(* Properties of the parser                                                *)
(***************************************************************************)
\* where the headers and the payload of frame p are, by the packet format
L4Offset(p) == SizeOfEthHdr + p.ihl * 4
L4HeaderSize(p) ==
    CASE p.protocol = IPPROTO_TCP -> SizeOfTcpHdr
      [] p.protocol = IPPROTO_UDP -> SizeOfUdpHdr
      [] p.protocol = IPPROTO_ICMP -> SizeOfIcmpHdr
      [] OTHER -> 0
PayloadStart(p) ==
    L4Offset(p) + (IF p.protocol = IPPROTO_TCP THEN p.doff * 4 ELSE L4HeaderSize(p))
Handled(p) ==
    /\ p.ether_type = ETH_P_IP
    /\ p.protocol \in {IPPROTO_TCP, IPPROTO_UDP, IPPROTO_ICMP}

\* C1: every byte the parser loads, header field or payload byte, lies at an
\* offset in [0, len), whatever the length, the IHL nibble and the TCP
\* data-offset nibble of the frame are.
C1_ReadsInBounds ==
    \A r \in reads : 0 <= r[1] /\ r[1] < r[2] /\ r[2] <= pkt.len

\* C1 witness: a frame whose IHL nibble is below 5 and whose TCP data offset
\* is below 5 has been parsed to the end, payload bytes included.
C1_Witness ==
    /\ ppc = "pass"
    /\ pkt.protocol = IPPROTO_TCP /\ pkt.ihl < 5 /\ pkt.doff < 5
    /\ events # <<>>
    /\ \E r \in reads : r[1] = payload_ptr /\ r[2] = pkt.len

\* C2: every emitted event has payload_len <= MAX_PAYLOAD_SIZE, and every
\* index of payload[] the copy loop stores to is below MAX_PAYLOAD_SIZE.
C2_PayloadLenBounded ==
    /\ \A k \in 1..Len(events) : events[k].payload_len <= MAX_PAYLOAD_SIZE
    /\ \A w \in writes : 0 <= w /\ w < MAX_PAYLOAD_SIZE
    /\ payload_len <= MAX_PAYLOAD_SIZE

\* C2 witness: an event for a frame with more than MAX_PAYLOAD_SIZE payload
\* bytes, whose copy stopped at the capacity.
C2_Witness ==
    /\ events # <<>>
    /\ pkt.len - payload_ptr > MAX_PAYLOAD_SIZE
    /\ events[1].payload_len = MAX_PAYLOAD_SIZE
    /\ (MAX_PAYLOAD_SIZE - 1) \in writes

\* a header, or the computed start of the payload, lies past the end of frame p
Truncated(p) ==
    \/ SizeOfEthHdr > p.len
    \/ SizeOfEthHdr + SizeOfIpv4Hdr > p.len
    \/ Handled(p) /\ L4Offset(p) + L4HeaderSize(p) > p.len
    \/ Handled(p) /\ PayloadStart(p) > p.len

\* C3: when the Ethernet header, the IPv4 header, the fixed L4 header or the
\* computed start of the payload lies past the end of the frame, the parser
\* passes the frame without emitting an event.
C3_TruncatedYieldsPass ==
    Truncated(pkt) => events = <<>>

\* a well-formed Ethernet/IPv4 frame carrying TCP, UDP or ICMP
WellFormed(p) ==
    /\ Handled(p)
    /\ p.ihl >= 5
    /\ p.protocol = IPPROTO_TCP => p.doff >= 5
    /\ L4Offset(p) + L4HeaderSize(p) <= p.len
    /\ PayloadStart(p) <= p.len

\* the 16-bit value carried, in wire order, by the two bytes at offset o
Wire16(p, o) == Data(p, o) * 256 + Data(p, o + 1)
\* the 32-bit value carried, in wire order, by the four bytes at offset o
Wire32(p, o) == <<Data(p, o), Data(p, o + 1), Data(p, o + 2), Data(p, o + 3)>>

ExpectedPayloadLen(p) == Min(p.len - PayloadStart(p), MAX_PAYLOAD_SIZE)

\* C5: for a well-formed TCP/UDP/ICMP frame the parser emits exactly one
\* event; its protocol, addresses, ports (0 for ICMP), flags (0 unless TCP)
\* and packet_size are those of the frame, and its payload is the first
\* min(bytes after the L4 header, 128) bytes after the L4 header, with
\* payload_len that count.
C5_WellFormedFields ==
    (ppc = "pass" /\ WellFormed(pkt)) =>
        /\ Len(events) = 1
        /\ LET e == events[1]
               l4 == L4Offset(pkt)
           IN  /\ e.protocol = pkt.protocol
               /\ SwapBytes32(e.src_ip) = Wire32(pkt, SizeOfEthHdr + 12)
               /\ SwapBytes32(e.dst_ip) = Wire32(pkt, SizeOfEthHdr + 16)
               /\ SwapBytes16(e.src_port) =
                     IF pkt.protocol = IPPROTO_ICMP THEN 0 ELSE Wire16(pkt, l4)
               /\ SwapBytes16(e.dst_port) =
                     IF pkt.protocol = IPPROTO_ICMP THEN 0 ELSE Wire16(pkt, l4 + 2)
               /\ e.tcp_flags =
                     IF pkt.protocol = IPPROTO_TCP THEN Data(pkt, l4 + 13) ELSE 0
               /\ e.packet_size = pkt.len
               /\ e.payload_len = ExpectedPayloadLen(pkt)
               /\ \A k \in 0..(e.payload_len - 1) :
                     e.payload[k + 1] = Data(pkt, PayloadStart(pkt) + k)

\* C5 witness: a parsed well-formed TCP frame with IP options, TCP options
\* and a payload that is shorter than the capacity.
C5_Witness ==
    /\ ppc = "pass" /\ WellFormed(pkt)
    /\ pkt.protocol = IPPROTO_TCP /\ pkt.ihl > 5 /\ pkt.doff > 5
    /\ Len(events) = 1
    /\ events[1].payload_len > 0 /\ events[1].payload_len < MAX_PAYLOAD_SIZE

\* C10: for every emitted event the L4 header was located at least 20 bytes
\* after the start of the IPv4 header, and for TCP the payload at least 20
\* bytes after the start of the TCP header.
C10_HeaderLengthsAtLeast20 ==
    events # <<>> =>
        /\ l4_off >= SizeOfEthHdr + SizeOfIpv4Hdr
        /\ events[1].protocol = IPPROTO_TCP => payload_ptr >= l4_off + SizeOfTcpHdr

(***************************************************************************)
(* Properties of Filter::matches                                           *)
(***************************************************************************)
Criteria == {"protocol", "src_ip", "dst_ip", "src_port", "dst_port"}

\* C4: matches returns true exactly when every criterion that is present
\* equals the event's field; the filter without criteria matches every
\* event; {protocol = UDP, dst_port = 53} does not match TCP to port 53.
C4_MatchesIffAllPresentEqual ==
    mresult # None =>
        /\ mresult[1] = (\A fld \in Criteria :
                            filter[fld] = None \/ filter[fld][1] = mevent[fld])
        /\ filter = NoFilter => mresult[1]
        /\ ( /\ filter = Filter(Some(IPPROTO_UDP), None, None, None, Some(PortDns))
             /\ mevent.protocol = IPPROTO_TCP
             /\ mevent.dst_port = PortDns ) => ~mresult[1]

\* C4 witness: a filter with all five criteria present has matched an event.
C4_Witness ==
    /\ mresult = Some(TRUE)
    /\ \A fld \in Criteria : filter[fld] # None

(***************************************************************************)
(* Properties of the consumer tasks and of the shutdown                    *)
(***************************************************************************)
\* number of lines of the record that line l of stdout belongs to
LinesOfRecord(l) == OutputLineCount(RecordOf(traffic, l[1], l[2]).ev, display_mode)

\* C6: on standard output the lines of one task's record are never
\* interleaved with anything else: each record stands there complete, its
\* lines one after the other.
C6_RecordsNotInterleaved ==
    \A p \in 1..Len(stdout) :
        LET l == stdout[p]
        IN  l[1] \in Cpus =>
              /\ l[3] > 1 => (p > 1 /\ stdout[p - 1] = <<l[1], l[2], l[3] - 1>>)
              /\ l[3] < LinesOfRecord(l) =>
                    (p < Len(stdout) /\ stdout[p + 1] = <<l[1], l[2], l[3] + 1>>)

\* C6 witness: a multi-line record of task 1 directly follows a multi-line
\* record of task 0, and task 0 already holds its next formatted record.
C6_Witness ==
    /\ cpc[0] = "println"
    /\ Len(output[0]) > 1
    /\ \E p \in 2..Len(stdout) :
          /\ stdout[p - 1][1] = 0 /\ stdout[p - 1][3] > 1
          /\ stdout[p][1] = 1 /\ stdout[p][3] = 1 /\ LinesOfRecord(stdout[p]) > 1

\* main is past the abort loop only with abort() called on every task; the
\* process has exited only with no task running and with status success
ShutdownDone ==
    /\ mainpc \in {"returned", "exited"} => \A c \in Cpus : abort_req[c]
    /\ mainpc = "exited" =>
          /\ \A c \in Cpus : cpc[c] \in {"aborted", "finished"}
          /\ exit_code = Some(0)
    /\ exit_code # None => mainpc = "exited"

\* C7: once the shutdown signal has been received, abort() is called on
\* every task and the process exits: then no task is running, whatever is
\* left in its channel or batch, and the exit status is success.
C7_ShutdownAbortsAll ==
    /\ []ShutdownDone
    /\ (mainpc = "abort") ~> (mainpc = "exited")

\* C7 witness: the process has exited while an aborted task still had
\* unread records in its channel.
C7_Witness ==
    /\ mainpc = "exited"
    /\ \E c \in Cpus : cpc[c] = "aborted" /\ ring[c] # <<>>

\* a step leaves every task but c, and the abort requests, as they were
OthersUntouched(c) ==
    /\ \A d \in Cpus \ {c} :
          /\ cpc'[d] = cpc[d] /\ ready'[d] = ready[d] /\ fresh'[d] = fresh[d]
          /\ ring'[d] = ring[d] /\ buffers'[d] = buffers[d] /\ idx'[d] = idx[d]
          /\ total'[d] = total[d] /\ filtered'[d] = filtered[d]
          /\ counters'[d] = counters[d] /\ output'[d] = output[d]
    /\ abort_req' = abort_req

CountersUntouched(c) ==
    total'[c] = total[c] /\ filtered'[c] = filtered[c] /\ counters'[c] = counters[c]

\* C8: a failed read_events makes the task clear its ready state (what
\* remains is readiness that arrived after the wake-up) and wait again, its
\* counters unchanged; a failed wait ends that task alone; neither touches
\* another task.
C8_FailuresAreLocal ==
    [][\A c \in Cpus :
          /\ (cpc[c] = "read" /\ cpc'[c] \notin {"read", "batch"}) =>
                /\ cpc'[c] = "await"
                /\ ready'[c] = (ready[c] /\ fresh[c])
                /\ CountersUntouched(c)
                /\ OthersUntouched(c)
          /\ (cpc[c] = "await" /\ cpc'[c] = "finished") =>
                /\ CountersUntouched(c)
                /\ OthersUntouched(c)]_vars

\* C8 witness: task 0 has ended on a failed wait with records left in its
\* channel, task 1 has seen a read fail (it is waiting with its first record
\* still unread) and is alive.
C8_Witness ==
    /\ cpc[0] = "finished" /\ ring[0] # <<>>
    /\ cpc[1] = "await" /\ ~ready[1] /\ Len(ring[1]) = 1 /\ produced[1] = 1

\* ids of the records of task c on stdout, in the order they were written
PrintedIds(c) ==
    LET first == SelectSeq(stdout, LAMBDA l : l[1] = c /\ l[3] = 1)
    IN  [k \in 1..Len(first) |-> first[k][2]]

\* number of records of channel c the for loop has gone past
GonePast(c) == produced[c] - Len(ring[c]) - (Len(buffers[c]) - idx[c])

\* ids of the matching full-size records among the first n delivered to c
MatchingIds(c, n) ==
    LET arrived == [k \in 1..n |-> RecordOf(traffic, c, k)]
        hit == SelectSeq(arrived, LAMBDA r : r.full /\ FilterMatches(filter, r.ev))
    IN  [k \in 1..Len(hit) |-> hit[k].id]

\* C9: the records a task has written are exactly the matching records among
\* those it has gone past, each once, in the order they arrived on its channel.
C9_OutputInArrivalOrder ==
    \A c \in Cpus : PrintedIds(c) = MatchingIds(c, GonePast(c))

\* C9 witness: task 0 has written two records in arrival order, and a record
\* of task 1 stands between them.
C9_Witness ==
    /\ Len(PrintedIds(0)) >= 2
    /\ \E p, q, r \in 1..Len(stdout) :
          /\ p < q /\ q < r
          /\ stdout[p][1] = 0 /\ stdout[q][1] = 1 /\ stdout[r][1] = 0
          /\ stdout[p][2] < stdout[r][2]

(***************************************************************************)
(* Properties of the renderers                                             *)
(***************************************************************************)
Mode == ParseDisplayMode(opt.mode)

\* the first line of the text of bytes that is not blank, trimmed
FirstNonEmptyLine(bytes) ==
    LET all == Lines(Utf8Lossy(bytes))
        full == {k \in 1..Len(all) : Trim(all[k]) # <<>>}
    IN  IF full = {} THEN <<>>
        ELSE Trim(all[CHOOSE m \in full : \A j \in full : m <= j])

\* line starts with a request method and a space, or with "HTTP/"
IsHttpStart(line) ==
    (\E m \in RequestMethods : StartsWith(line, m)) \/ StartsWith(line, HTTP_SLASH)

\* C11: in Protocol mode, for a TCP event with source or destination port
\* 80, the HTTP dissector produces the output exactly when the first
\* non-empty line of the captured payload starts with GET, POST, PUT, DELETE,
\* HEAD, OPTIONS or PATCH followed by a space, or with HTTP/; blank lines in
\* front of a request line do not prevent it.
C11_HttpFirstNonEmptyLine ==
    (rpc = "done" /\ Mode = "Protocol" /\ IsHttpPort(revent)) =>
        ((dissector = "http") <=> IsHttpStart(FirstNonEmptyLine(ProtocolPayload(revent))))

\* number of pieces of the String s that were written with the format string fmt
CountTok(s, fmt) == Cardinality({k \in 1..Len(s) : s[k][1] = fmt})

\* C12: once the DNS dissector has met a label length byte that extends past
\* the end of the captured payload, it reads nothing more of the payload,
\* starts no further question and writes no TYPE for the question at hand:
\* its next step returns the text produced so far as the DNS output.
C12_DnsStopsAtOverrun ==
    [][(overrun /\ rpc # "done") =>
          /\ indexed' = indexed
          /\ CountTok(dns_output', "  Query {}: ") = CountTok(dns_output, "  Query {}: ")
          /\ CountTok(dns_output', " (type: ") = CountTok(dns_output, " (type: ")
          /\ rpc' = "done"
          /\ rendered' # None
          /\ dissector' = "dns"]_vars

\* C13: in Protocol mode, when neither dissector applies or succeeds, the
\* output is what Text mode returns for the same event under the same
\* payload_bytes and payload_full: the Basic line, the Content: header and
\* the text-or-hex view of the effective bytes.
C13_FallbackIsTextMode ==
    (rpc = "done" /\ Mode = "Protocol" /\ dissector = "none") =>
        rendered = Some(TextModeOutput(revent, opt.payload_bytes, opt.payload_full))

(***************************************************************************)
(* Properties of Filter::from_opt                                          *)
(***************************************************************************)
\* C14: the filter built from the command line matches an event exactly
\* when, for every criterion given, the event's field converted to host
\* order the way the renderer does (u16::from_be, u32::from_be in format_ip)
\* equals the port or address given; an address that does not parse is no
\* criterion.
C14_FromOptWireOrder ==
    mresult # None =>
        mresult[1] =
          ( /\ ToLowercase(opt.protocol) = "tcp" => mevent.protocol = IPPROTO_TCP
            /\ ToLowercase(opt.protocol) = "udp" => mevent.protocol = IPPROTO_UDP
            /\ (opt.src_ip # None /\ Len(opt.src_ip[1]) = 4) =>
                  FormatIp(mevent.src_ip) = opt.src_ip[1]
            /\ (opt.dst_ip # None /\ Len(opt.dst_ip[1]) = 4) =>
                  FormatIp(mevent.dst_ip) = opt.dst_ip[1]
            /\ opt.src_port # None => SwapBytes16(mevent.src_port) = opt.src_port[1]
            /\ opt.dst_port # None => SwapBytes16(mevent.dst_port) = opt.dst_port[1] )

\* C14 witness: a command line with --src-ip 192.168.1.5 and --dst-port 53
\* has matched an event that carries them in wire order.
C14_Witness ==
    /\ mresult = Some(TRUE)
    /\ opt.src_ip = Some(<<192, 168, 1, 5>>) /\ opt.dst_port = Some(53)
    /\ mevent.src_ip = <<5, 1, 168, 192>> /\ mevent.dst_port = 13568

(***************************************************************************)
(* Properties of the counters and of the drain loop                        *)
(***************************************************************************)
\* the full-size records among the first n delivered to c
FullRecords(c, n) == {k \in 1..n : RecordOf(traffic, c, k).full}

SumCounters(c) ==
    counters[c][IPPROTO_TCP] + counters[c][IPPROTO_UDP] + counters[c][IPPROTO_ICMP]

\* the counters of task c where it can suspend or has ended
CountersAgree(c) ==
    cpc[c] \in {"await", "aborted", "finished"} =>
        /\ total[c] = Cardinality(FullRecords(c, GonePast(c)))
        /\ filtered[c] = Len(MatchingIds(c, GonePast(c)))
        /\ filtered[c] = Len(PrintedIds(c))
        /\ filtered[c] = SumCounters(c)
        /\ filtered[c] <= total[c]

\* the step of task c over a full-size record that does not match
StepsOverNonMatching(c) ==
    /\ cpc[c] = "batch" /\ idx[c] < Len(buffers[c]) /\ idx'[c] = idx[c] + 1
    /\ CurrentRecord(c).full /\ ~FilterMatches(filter, CurrentRecord(c).ev)

\* C15: where a consumer task can suspend or be cancelled, its total is the
\* number of full-size records it has decoded, its filtered is the number of
\* those that matched, which is the number of records it has written and the
\* sum of its per-protocol counters, and filtered <= total; a record that
\* does not match changes total alone and writes nothing; the counters of a
\* task change only in steps of that task's own for loop.
C15_CountersConsistent ==
    /\ [](\A c \in Cpus : CountersAgree(c))
    /\ [][\A c \in Cpus :
            /\ StepsOverNonMatching(c) =>
                  /\ total'[c] = total[c] + 1
                  /\ filtered' = filtered /\ counters' = counters
                  /\ stdout' = stdout /\ output' = output
            /\ ~CountersUntouched(c) =>
                  /\ cpc[c] \in {"batch", "println"}
                  /\ \A d \in Cpus \ {c} : CountersUntouched(d)]_vars

\* C15 witness: under the filter, task 0 waits again after a short record, a
\* record that did not match and a record that matched, while task 1 holds
\* a formatted record it has counted but not written.
C15_Witness ==
    /\ filter # NoFilter
    /\ cpc[0] = "await" /\ GonePast(0) = 3 /\ total[0] = 2 /\ filtered[0] = 1
    /\ cpc[1] = "println" /\ filtered[1] = 1 /\ SumCounters(1) = 0

\* a task never holds more than one batch, and it is suspended on a cleared
\* ready state only with nothing left in its channel
DrainedWhenSuspended ==
    \A c \in Cpus :
        /\ Len(buffers[c]) <= BatchSize
        /\ (cpc[c] = "await" /\ ~ready[c]) => ring[c] = <<>>

DumpOf(s) == SubSeq(s, Len(FormatEvent(revent)) + 2, Len(s))

\* the positions in dump of the page headers, in order
PageHeaders(dump) ==
    SelectSeq([k \in 1..Len(dump) |-> k], LAMBDA k : dump[k][1] = PageFmt)

\* the pieces of page k: from its header up to the next header or the end
PageOf(dump, k) ==
    LET at == PageHeaders(dump)
    IN  SubSeq(dump, at[k], IF k < Len(at) THEN at[k + 1] - 1 ELSE Len(dump))

\* the bytes of the rows in a sequence of pieces
RECURSIVE RowBytes(_)
RowBytes(s) ==
    IF s = <<>> THEN <<>>
    ELSE (IF Head(s)[1] = RowFmt THEN Tail(Head(s)[2]) ELSE <<>>) \o RowBytes(Tail(s))

\* C17: Hex mode paginates exactly when page_lines > 0 and the number of
\* rows, ceil(effective / 16), exceeds page_lines (which no number of rows
\* does for page_lines = hi * 2^60 + lo with hi > 0), with effective =
\* min(payload_full ? payload_len : payload_bytes, payload_len).  Then the
\* pages are numbered 1..ceil(rows / page_lines); each page but the last has
\* exactly page_lines rows; the byte ranges in the headers start at 0, follow
\* one another without gap or overlap and end at effective - 1, and the rows
\* of a page show exactly the bytes of its range; one blank line follows
\* every page but the last.
C17_HexPagination ==
    (rpc = "done" /\ Mode = "Hex") =>
        LET effective == IF opt.payload_full THEN revent.payload_len
                         ELSE Min(opt.payload_bytes, revent.payload_len)
            rows == (effective + 15) \div 16
            dump == DumpOf(rendered[1])
            pages == Len(PageHeaders(dump))
            range(k) == PageOf(dump, k)[1][2]
            page_lines == opt.page_lines.lo
        IN  /\ (pages > 0) <=>
                  (opt.page_lines.hi = 0 /\ page_lines > 0 /\ rows > page_lines)
            /\ RowBytes(dump) = SubSeq(revent.payload, 1, effective)
            /\ CountTok(dump, RowFmt) = rows
            /\ pages > 0 =>
                  /\ pages = (rows + page_lines - 1) \div page_lines
                  /\ PageHeaders(dump)[1] = 1
                  /\ range(1)[2] = 0
                  /\ range(pages)[3] = effective - 1
                  /\ \A k \in 1..pages :
                        LET page == PageOf(dump, k)
                        IN  /\ range(k)[1] = k
                            /\ k < pages => range(k + 1)[2] = range(k)[3] + 1
                            /\ RowBytes(page) =
                                  SubSeq(revent.payload, range(k)[2] + 1, range(k)[3] + 1)
                            /\ k < pages =>
                                  /\ CountTok(page, RowFmt) = page_lines
                                  /\ Len(page) = page_lines + 2
                                  /\ page[Len(page)] = Tok("\n", <<>>)
                            /\ k = pages =>
                                  /\ CountTok(page, RowFmt) >= 1
                                  /\ Len(page) = CountTok(page, RowFmt) + 1

(***************************************************************************)
(* Termination and indexing of the renderers                               *)
(***************************************************************************)
\* no index or slice outside payload[0, payload_len), and no panic
IndexedInRange ==
    /\ rpc # "panic"
    /\ \A r \in indexed : 0 <= r[1] /\ r[1] <= r[2] /\ r[2] <= revent.payload_len
    /\ pos <= revent.payload_len

\* how far format_event_with_mode is from returning: four for every payload
\* byte that parse_dns has not read yet, and the steps left at this byte
Remaining ==
    CASE rpc = "format" -> 4 * revent.payload_len + 6
      [] rpc = "parse_dns" -> 4 * revent.payload_len + 5
      [] rpc = "dns_for" -> 4 * (revent.payload_len - pos) + 3
      [] rpc = "dns_loop" -> 4 * (revent.payload_len - pos) + 2
      [] rpc = "dns_type" -> 4 * (revent.payload_len - pos) + 1
      [] OTHER -> 0

\* format_event_with_mode has returned, or has stopped at the product of
\* line 574, or the guard of one of its steps holds
ReturnedOrRunning ==
    \/ rpc = "done" /\ rendered # None
    \/ rpc = "overflow" /\ Line574Overflows
    \/ rpc = "format"
          /\ ParseDisplayMode(opt.mode) \in {"Basic", "Hex", "Text", "Protocol", "Json"}
    \/ rpc \in {"parse_dns", "dns_for", "dns_loop", "dns_type"}

\* C18: for payload_len <= 128, whatever the payload bytes, the display
\* mode, payload_bytes, payload_full and page_lines are, rendering never
\* indexes outside payload[0, payload_len) and it ends: it can always take
\* a step until it has ended, and every step brings it closer.  It ends by
\* returning the text, except that with page_lines >= 2^60 in Hex mode a
\* build with overflow checks ends it at page_lines * 16, before any byte
\* of the payload is read.  In
\* parse_dns the read position never goes back, and it grows in every
\* iteration of the label loop and with every question, whatever the
\* question count and the label length bytes are.
C18_RenderTerminates ==
    /\ [](/\ IndexedInRange
          /\ Remaining >= 0
          /\ ReturnedOrRunning)
    /\ [][/\ Remaining' < Remaining
          /\ pos' >= pos
          /\ (rpc = "dns_loop" /\ pos < revent.payload_len) => pos' > pos
          /\ (rpc = "dns_type" /\ rpc' = "dns_for") => pos' > pos
          /\ question' > question => pos' > pos]_vars

\* C18 witness: the DNS dissector has returned for a payload that announces
\* 65535 questions, after a label that ends with the last byte of the
\* payload and after a length byte that extends past it.
C18_Witness ==
    /\ rpc = "done" /\ dissector = "dns"
    /\ question_count = 65535
    /\ overrun
    /\ \E r \in indexed : r[1] > 12 /\ r[2] - r[1] > 1 /\ r[2] = revent.payload_len

====
